---- MODULE Spec2Model ----
(***************************************************************************)
(* The duplex streaming session of the InsightLive component.              *)
(*                                                                         *)
(* Two revisions of the component are in the repository:                   *)
(*   "base"  : src/components/InsightLive.tsx (no tool calls; disconnect   *)
(*             nulls the refs and clears the playback state)               *)
(*   "tools" : src/unnamed/part_001 (tool calls; disconnect keeps the refs *)
(*             and leaves the playback state alone)                        *)
(* The variable `variant` selects the revision; everything else is the     *)
(* component's refs and React state, the browser resources they point to,  *)
(* and the position of every asynchronous callback.                        *)
(*                                                                         *)
(* Time is counted in tenths of a second.  Every output AudioContext has   *)
(* its own clock (currentTime) that starts at 0 when the context is        *)
(* created, advances together with the clocks of the other running         *)
(* contexts and freezes when the context is closed.                        *)
(*                                                                         *)
(* Beside the session component the module holds the two other views of    *)
(* the application, each with a specification of its own over the same     *)
(* variables: ReaderView (capture and analysis on a voice command or a     *)
(* click) and GuardianOverlay (frame differencing and the debounced        *)
(* alert).  Their clock is Date.now(), in milliseconds.                    *)
(***************************************************************************)
EXTENDS Integers, Sequences, FiniteSets, TLC

\* ---- bounds of the model ------------------------------------------------
MaxSessions == 2      \* connectLive calls, lifecycle specification
PlaySessions == 1     \* connectLive calls, playback specification
ToolSessions == 1     \* connectLive calls, tool-call specification
MaxAudioMsgs == 2     \* inbound messages that carry audio
MaxInterrupts == 1    \* inbound messages that carry the interrupted flag
MaxToolMsgs == 1      \* inbound messages that carry a toolCall
MaxBatch == 2         \* function calls in one toolCall
MaxClock == 5         \* largest currentTime of an output context
CaptureSessions == 1  \* connectLive calls, capture specification
MaxBlocks == 2        \* blocks the capture worklet posts
MaxTicks == 2         \* ticks of the frame timers
MaxCommands == 2      \* voice commands handed to the reader view
MaxRuns == 2          \* analysis calls the reader view makes
MaxReaderMs == 7500   \* milliseconds that pass in the reader specification
MaxFrames == 4        \* frames the hazard detector reads
MaxGuardianMs == 300  \* milliseconds that pass in the guardian specification

Durations == {5, 10}
Sessions == 1..MaxSessions

VARIABLES
  variant,            \* "base" | "tools": which revision runs
  isActive,           \* the lifecycle effect last ran its connect branch
  pendingEffect,      \* "none" | "connect" | "disconnect": effect body still to run
  status,             \* useState status
  streamRef, inputContextRef, audioContextRef, workletNodeRef, frameIntervalRef,
                      \* the refs; 0 is null (frameIntervalRef: 0 is "no timer")
  streamLive,         \* microphone streams whose tracks are live
  inputOpen,          \* input AudioContexts not closed
  out,                \* output AudioContexts: state and currentTime
  worklets,           \* AudioWorkletNodes created by startAudioStream
  timersLive,         \* setInterval timers not cleared
  sess,               \* per connectLive call: position and transport state
  nextStartTimeRef,   \* playback cursor
  activeSourcesRef,   \* set of source ids
  sources,            \* every AudioBufferSourceNode that was started
  inflight,           \* onmessage invocations suspended at an await
  nMsgs,              \* inbound messages delivered so far, by kind, and the
                      \* arrival index of the last one that was interrupted
  toolCalls,          \* function calls received, and whether the session was connected
  responses,          \* tool responses sent on an open transport
  mediaState,         \* the parent's media state (setMediaState)
  volume,             \* useState volume, kept as its square num/den
  nBlocks,            \* blocks the capture worklets posted so far
  nTicks,             \* frame-timer ticks so far: frame available or not
  pending,            \* sessionPromise.then(send) callbacks not run yet, per session
  sent,               \* realtime-input chunks that went out, per session
  failed,             \* send callbacks that threw
  started,            \* per session: what onopen started, in the order it did
  dateNow,            \* Date.now(), in milliseconds
  readerRev,          \* "capture" | "analysis": which revision of ReaderView runs
  apiKey,             \* process.env.API_KEY is set
  readerActive,       \* the isActive prop of ReaderView (the parent's mode)
  lastVoiceCommand,   \* the parent's useState lastVoiceCommand; id 0 is null
  isProcessing,       \* useState isProcessing (isAnalyzing in the capture revision)
  currentImage,       \* useState currentImage of the capture revision; 0 is null
  analysis,           \* useState analysis is not null
  rendered,           \* the values the last committed render of ReaderView closed over
  analyses,           \* handler runs suspended at the await of the analysis call
  runs,               \* analysis calls made so far, per command id (0: the button)
  guardianActive,     \* the isActive prop of GuardianOverlay
  lastFrameRef,       \* the previous frame; <<>> is null
  hazards,            \* useState hazards
  lastAlertTimeRef,   \* time of the last alert that fired
  alertLog,           \* every triggerAlert call so far: its time and whether it fired
  nFrames             \* frames read from the canvas so far

insightVars == <<variant, isActive, pendingEffect, status, streamRef,
                 inputContextRef, audioContextRef, workletNodeRef,
                 frameIntervalRef, streamLive, inputOpen, out, worklets,
                 timersLive, sess, nextStartTimeRef, activeSourcesRef, sources,
                 inflight, nMsgs, toolCalls, responses, mediaState, volume,
                 nBlocks, nTicks, pending, sent, failed, started>>
readerVars == <<readerRev, apiKey, readerActive, lastVoiceCommand, isProcessing,
                currentImage, analysis, rendered, analyses, runs>>
guardianVars == <<guardianActive, lastFrameRef, hazards, lastAlertTimeRef,
                  alertLog, nFrames>>
viewVars == <<dateNow, readerVars, guardianVars>>

vars == <<insightVars, viewVars>>

refVars == <<streamRef, inputContextRef, audioContextRef, workletNodeRef,
             frameIntervalRef>>
resVars == <<streamLive, inputOpen, out, worklets, timersLive>>
playVars == <<nextStartTimeRef, activeSourcesRef, sources>>
toolVars == <<toolCalls, responses, mediaState>>
lifeVars == <<isActive, pendingEffect>>
chunkVars == <<volume, nBlocks, nTicks, pending, sent, failed>>
captureVars == <<chunkVars, started>>

\* ---- helpers ------------------------------------------------------------
Max(a, b) == IF a >= b THEN a ELSE b
Min(a, b) == IF a <= b THEN a ELSE b

\* AudioContext.currentTime of output context c
CtxTime(c) == out[c].time

\* a scheduler that starts every segment at once, ignoring the cursor
StartTimeAtClock(currentTime, nst) == currentTime

\* Math.max(ctx.currentTime, nextStartTimeRef.current)
StartTime(currentTime, nst) == Max(currentTime, nst)

\* a cursor set to the segment's duration instead of its end
NextStartIsDuration(startTime, duration) == duration

\* startTime + audioBuffer.duration
NextStart(startTime, duration) == startTime + duration

\* an interruption that stops nothing
StopNone(srcs, act) == srcs

\* a forEach without the try/catch: the stop of a member that has played to
\* its end throws and no member is stopped
StopAllUntilThrow(srcs, act) ==
  IF \E i \in act : CtxTime(srcs[i].ctx) >= srcs[i].start + srcs[i].dur
  THEN srcs
  ELSE [i \in DOMAIN srcs |->
          IF i \in act /\ srcs[i].stop = -1
          THEN [srcs[i] EXCEPT !.stop = CtxTime(srcs[i].ctx)]
          ELSE srcs[i]]

\* source.stop() on every member of the set: the first stop fixes the stop time
StopAll(srcs, act) ==
  [i \in DOMAIN srcs |->
     IF i \in act /\ srcs[i].stop = -1
     THEN [srcs[i] EXCEPT !.stop = CtxTime(srcs[i].ctx)]
     ELSE srcs[i]]

\* a clear that deletes a single member
DeleteOneSource(act) == IF act = {} THEN {} ELSE act \ {CHOOSE s \in act : TRUE}

\* activeSourcesRef.current.clear()
ClearedSources(act) == {}

\* a reset that keeps the cursor
StaleTimeline(nst) == nst

\* nextStartTimeRef.current = 0
FreshTimeline(nst) == 0

\* the refs disconnect nulls in the base revision and keeps in the tools one
RefAfterDisconnect(ref) == IF variant = "base" THEN 0 ELSE ref

\* AudioContext.close()
CloseCtx(o) == IF o.state = "running" THEN [o EXCEPT !.state = "closed"] ELSE o

\* ---- initial state: after the first render, the lifecycle effect pending --
InitInsight ==
  /\ variant \in {"base", "tools"}
  /\ isActive = FALSE
  /\ pendingEffect \in {"connect", "disconnect"}
  /\ status = "idle"
  /\ streamRef = 0 /\ inputContextRef = 0 /\ audioContextRef = 0
  /\ workletNodeRef = 0 /\ frameIntervalRef = 0
  /\ streamLive = {} /\ inputOpen = {} /\ timersLive = {}
  /\ out = [k \in Sessions |-> [state |-> "none", time |-> 0]]
  /\ worklets = [k \in Sessions |-> [state |-> "none", ctx |-> 0, stream |-> 0]]
  /\ sess = [k \in Sessions |-> [pc |-> "unused", tr |-> "none"]]
  /\ nextStartTimeRef = 0
  /\ activeSourcesRef = {}
  /\ sources = <<>>
  /\ inflight = {}
  /\ nMsgs = [audio |-> 0, tool |-> 0, intr |-> 0, lastIntr |-> 0]
  /\ toolCalls = {}
  /\ responses = <<>>
  /\ mediaState = [isPlaying |-> FALSE, query |-> "none"]
  /\ volume = [num |-> 0, den |-> 1]
  /\ nBlocks = 0
  /\ nTicks = [avail |-> 0, skipped |-> 0]
  /\ pending = [k \in Sessions |-> [audio |-> 0, image |-> 0]]
  /\ sent = [k \in Sessions |-> [audio |-> 0, image |-> 0]]
  /\ failed = 0
  /\ started = [k \in Sessions |-> <<>>]

\* Date.now() when the page has loaded; every value of at least 250 behaves alike
DateNowStart == 1000

NoCommand == [id |-> 0, kind |-> "none", timestamp |-> 0]

\* what the render of ReaderView closes over, and the dependencies of its effects
Closure == [isActive |-> readerActive, cmd |-> lastVoiceCommand.id,
            isProcessing |-> isProcessing, currentImage |-> currentImage,
            analysis |-> analysis]

\* ReaderView after its first render, in one of the given revisions
InitReader(revs, keys) ==
  /\ readerRev \in revs
  /\ apiKey \in keys
  /\ readerActive = FALSE
  /\ lastVoiceCommand = NoCommand
  /\ isProcessing = FALSE
  /\ currentImage = 0
  /\ analysis = FALSE
  /\ rendered = [isActive |-> FALSE, cmd |-> 0, isProcessing |-> FALSE,
                 currentImage |-> 0, analysis |-> FALSE]
  /\ analyses = {}
  /\ runs = [c \in 0..MaxCommands |-> 0]

NoFrame == <<>>

\* GuardianOverlay after its first render
InitGuardian ==
  /\ guardianActive = FALSE
  /\ lastFrameRef = NoFrame
  /\ hazards = <<>>
  /\ lastAlertTimeRef = 0
  /\ alertLog = <<>>
  /\ nFrames = 0

\* the session specifications keep the two views as they are after mounting
Init ==
  /\ InitInsight
  /\ dateNow = DateNowStart
  /\ InitReader({"analysis"}, {TRUE})
  /\ InitGuardian

\* ---- disconnect ---------------------------------------------------------
\* the body of disconnect(); the playback part only exists in the base revision
Disconnect ==
  /\ worklets' = IF workletNodeRef # 0
                 THEN [worklets EXCEPT ![workletNodeRef].state = "disconnected"]
                 ELSE worklets
  /\ workletNodeRef' = RefAfterDisconnect(workletNodeRef)
  /\ streamLive' = streamLive \ {streamRef}
  /\ streamRef' = RefAfterDisconnect(streamRef)
  /\ inputOpen' = inputOpen \ {inputContextRef}
  /\ inputContextRef' = RefAfterDisconnect(inputContextRef)
  /\ out' = IF audioContextRef # 0
            THEN [out EXCEPT ![audioContextRef] = CloseCtx(@)]
            ELSE out
  /\ audioContextRef' = RefAfterDisconnect(audioContextRef)
  /\ timersLive' = timersLive \ {frameIntervalRef}
  /\ frameIntervalRef' = frameIntervalRef
  /\ IF variant = "base"
     THEN /\ sources' = StopAll(sources, activeSourcesRef)
          /\ activeSourcesRef' = ClearedSources(activeSourcesRef)
          /\ nextStartTimeRef' = FreshTimeline(nextStartTimeRef)
     ELSE UNCHANGED playVars
  /\ status' = "idle"

\* ---- connectLive --------------------------------------------------------
NextSession == Cardinality({k \in Sessions : sess[k].pc # "unused"}) + 1

\* connectLive() up to its first await (getUserMedia)
ConnectLiveStart(videoPresent) ==
  IF videoPresent
  THEN /\ status' = "connecting"
       /\ sess' = [sess EXCEPT ![NextSession].pc = "gum"]
  ELSE UNCHANGED <<status, sess>>

\* ---- the lifecycle effect ------------------------------------------------
\* cleanup of the previous effect run: disconnect(); the body runs next
EffectCleanup(next, maxSessions) ==
  /\ pendingEffect = "none"
  /\ isActive \/ next = "connect"
  /\ next = "connect" => NextSession <= maxSessions
  /\ Disconnect
  /\ pendingEffect' = next
  /\ UNCHANGED <<variant, viewVars, captureVars, isActive, sess, inflight, nMsgs, toolVars>>

\* effect body, isActive branch: connectLive()
EffectConnect(videoPresent, maxSessions) ==
  /\ pendingEffect = "connect"
  /\ NextSession <= maxSessions
  /\ ConnectLiveStart(videoPresent)
  /\ isActive' = TRUE
  /\ pendingEffect' = "none"
  /\ UNCHANGED <<variant, viewVars, captureVars, refVars, resVars, playVars, inflight, nMsgs, toolVars>>

\* effect body, else branch: disconnect()
EffectDisconnect ==
  /\ pendingEffect = "disconnect"
  /\ Disconnect
  /\ isActive' = FALSE
  /\ pendingEffect' = "none"
  /\ UNCHANGED <<variant, viewVars, captureVars, sess, inflight, nMsgs, toolVars>>

\* ---- connectLive continuations ------------------------------------------
\* getUserMedia resolves: stream and input context are stored, addModule awaited
GumResolve(k) ==
  /\ pendingEffect = "none"
  /\ sess[k].pc = "gum"
  /\ streamRef' = k
  /\ streamLive' = streamLive \cup {k}
  /\ inputContextRef' = k
  /\ inputOpen' = inputOpen \cup {k}
  /\ sess' = [sess EXCEPT ![k].pc = "addModule"]
  /\ UNCHANGED <<variant, viewVars, captureVars, lifeVars, status, audioContextRef, workletNodeRef,
                 frameIntervalRef, out, worklets, timersLive, playVars,
                 inflight, nMsgs, toolVars>>

\* getUserMedia or addModule rejects: the catch block
SetupReject(k) ==
  /\ pendingEffect = "none"
  /\ sess[k].pc \in {"gum", "addModule"}
  /\ status' = "error"
  /\ sess' = [sess EXCEPT ![k].pc = "failed"]
  /\ UNCHANGED <<variant, viewVars, captureVars, lifeVars, refVars, resVars, playVars, inflight, nMsgs,
                 toolVars>>

\* addModule resolves: output context created, ai.live.connect called
AddModuleResolve(k) ==
  /\ pendingEffect = "none"
  /\ sess[k].pc = "addModule"
  /\ audioContextRef' = k
  /\ out' = [out EXCEPT ![k] = [state |-> "running", time |-> 0]]
  /\ sess' = [sess EXCEPT ![k] = [pc |-> "live", tr |-> "connecting"]]
  /\ UNCHANGED <<variant, viewVars, captureVars, lifeVars, status, streamRef, inputContextRef,
                 workletNodeRef, frameIntervalRef, streamLive, inputOpen,
                 worklets, timersLive, playVars, inflight, nMsgs, toolVars>>

\* ---- transport callbacks -------------------------------------------------
\* an onopen that starts the frame timer before the capture
StartOrderFramesFirst(capture) ==
  <<"frames">> \o (IF capture THEN <<"capture">> ELSE <<>>)

\* startAudioStream(sessionPromise), which returns early without a stream or an
\* input context, then startVideoStream(sessionPromise)
StartOrder(capture) ==
  (IF capture THEN <<"capture">> ELSE <<>>) \o <<"frames">>

\* onopen: setStatus('connected'); startAudioStream; startVideoStream
OnOpen(k) ==
  /\ pendingEffect = "none"
  /\ sess[k].tr = "connecting"
  /\ sess' = [sess EXCEPT ![k].tr = "open"]
  /\ status' = "connected"
  /\ IF inputContextRef # 0 /\ streamRef # 0
     THEN /\ worklets' = [worklets EXCEPT ![k] =
                 [state |-> "connected", ctx |-> inputContextRef, stream |-> streamRef]]
          /\ workletNodeRef' = k
     ELSE UNCHANGED <<worklets, workletNodeRef>>
  /\ frameIntervalRef' = k
  /\ timersLive' = timersLive \cup {k}
  /\ started' = [started EXCEPT ![k] = StartOrder(inputContextRef # 0 /\ streamRef # 0)]
  /\ UNCHANGED <<variant, viewVars, chunkVars, lifeVars, streamRef, inputContextRef, audioContextRef,
                 streamLive, inputOpen, out, playVars, inflight, nMsgs, toolVars>>

\* onerror: setStatus('error'); the close event follows
OnError(k) ==
  /\ pendingEffect = "none"
  /\ sess[k].tr \in {"connecting", "open"}
  /\ sess' = [sess EXCEPT ![k].tr = "errored"]
  /\ status' = "error"
  /\ UNCHANGED <<variant, viewVars, captureVars, lifeVars, refVars, resVars, playVars, inflight, nMsgs,
                 toolVars>>

\* a close handler that starts over: the status goes back to connecting
OnCloseReconnects(k) ==
  /\ pendingEffect = "none"
  /\ sess[k].tr \in {"open", "errored"}
  /\ sess' = [sess EXCEPT ![k].tr = "closed"]
  /\ status' = "connecting"
  /\ UNCHANGED <<variant, viewVars, captureVars, lifeVars, refVars, resVars, playVars, inflight,
                 nMsgs, toolVars>>

\* onclose: setStatus('idle')
OnClose(k) ==
  /\ pendingEffect = "none"
  /\ sess[k].tr \in {"open", "errored"}
  /\ sess' = [sess EXCEPT ![k].tr = "closed"]
  /\ status' = "idle"
  /\ UNCHANGED <<variant, viewVars, captureVars, lifeVars, refVars, resVars, playVars, inflight, nMsgs,
                 toolVars>>

\* ---- inbound messages (onmessage) ------------------------------------------
\* function calls the server can put in a toolCall batch: name and args, where
\* args is "none" (fc.args undefined), "empty" (no query member) or a query
FcShapes ==
  { [name |-> "search_google", args |-> "q"],
    [name |-> "search_google", args |-> "none"],
    [name |-> "play_video", args |-> "q"],
    [name |-> "play_video", args |-> "empty"],
    [name |-> "other", args |-> "q"] }

Batches == UNION { [1..n -> FcShapes] : n \in 1..MaxBatch }

\* one server message carries audio (a duration, or -1 for a payload that does
\* not decode), a toolCall batch, or the interrupted flag
AudioMsgs == { [audio |-> a, calls |-> <<>>, interrupted |-> FALSE] : a \in Durations \cup {-1} }
ToolMsgs == { [audio |-> 0, calls |-> b, interrupted |-> FALSE] : b \in Batches }
IntrMsgs == { [audio |-> 0, calls |-> <<>>, interrupted |-> TRUE] }

MsgIndex == nMsgs.audio + nMsgs.tool + nMsgs.intr + 1

\* the for-loop over toolCall.functionCalls from index i up to the next await
\* (performToolSearch), an exception (fc.args is undefined) or the end
RECURSIVE ToolLoop(_, _, _)
ToolLoop(calls, i, media) ==
  IF i > Len(calls)
  THEN [outcome |-> "end", i |-> i, resps |-> <<>>, media |-> media]
  ELSE LET fc == calls[i] IN
    IF fc.name \in {"search_google", "play_video"} /\ fc.args = "none"
    THEN [outcome |-> "threw", i |-> i, resps |-> <<>>, media |-> media]
    ELSE IF fc.name = "search_google"
    THEN [outcome |-> "await", i |-> i, resps |-> <<>>, media |-> media]
    ELSE LET played == fc.name = "play_video"
             rest == ToolLoop(calls, i + 1,
                       IF played THEN [isPlaying |-> TRUE, query |-> fc.args] ELSE media)
         IN [rest EXCEPT !.resps =
               <<[pos |-> i, name |-> fc.name,
                  result |-> IF played THEN "started" ELSE "ok"]>> \o @]

\* sessionPromise.then(session => session.sendToolResponse(...)): the response
\* goes out when the transport of the handler's session is open
SentResponses(h, rs) ==
  IF sess[h.sess].tr = "open"
  THEN [j \in 1..Len(rs) |->
          [sess |-> h.sess, id |-> <<h.m, rs[j].pos>>, name |-> rs[j].name,
           result |-> rs[j].result]]
  ELSE <<>>

\* the rest of onmessage after the audio part: the tool-call loop from index i
\* (tools revision only), then the interruption part; srcs, act, nst are the
\* playback state the audio part left, pre the responses queued before the loop
Continue(h, i, srcs, act, nst, pre) ==
  LET r == IF variant = "tools"
           THEN ToolLoop(h.calls, i, mediaState)
           ELSE [outcome |-> "end", i |-> i, resps |-> <<>>, media |-> mediaState]
      interrupt == r.outcome = "end" /\ h.interrupted
  IN /\ responses' = responses \o SentResponses(h, pre \o r.resps)
     /\ mediaState' = r.media
     /\ inflight' = (inflight \ {h}) \cup
                    (IF r.outcome = "await"
                     THEN {[h EXCEPT !.pc = "search", !.i = r.i]} ELSE {})
     /\ sources' = IF interrupt THEN StopAll(srcs, act) ELSE srcs
     /\ activeSourcesRef' = IF interrupt THEN ClearedSources(act) ELSE act
     /\ nextStartTimeRef' = IF interrupt THEN FreshTimeline(nst) ELSE nst

\* onmessage is called with msg on the transport of session k
OnMessage(k, msg) ==
  /\ pendingEffect = "none"
  /\ sess[k].tr = "open"
  /\ msg.audio # 0 => nMsgs.audio < MaxAudioMsgs
  /\ msg.calls # <<>> => nMsgs.tool < MaxToolMsgs /\ variant = "tools"
  /\ msg.interrupted => nMsgs.intr < MaxInterrupts
  /\ nMsgs' = [audio |-> nMsgs.audio + (IF msg.audio # 0 THEN 1 ELSE 0),
               tool |-> nMsgs.tool + (IF msg.calls # <<>> THEN 1 ELSE 0),
               intr |-> nMsgs.intr + (IF msg.interrupted THEN 1 ELSE 0),
               lastIntr |-> IF msg.interrupted THEN MsgIndex ELSE nMsgs.lastIntr]
  /\ toolCalls' = toolCalls \cup
        { [m |-> MsgIndex, sess |-> k, pos |-> p, name |-> msg.calls[p].name,
           args |-> msg.calls[p].args, connected |-> isActive /\ status = "connected"]
          : p \in 1..Len(msg.calls) }
  /\ LET h == [m |-> MsgIndex, sess |-> k, ctx |-> audioContextRef,
               audio |-> msg.audio, calls |-> msg.calls,
               interrupted |-> msg.interrupted, pc |-> "decode", i |-> 1]
     IN IF msg.audio # 0 /\ audioContextRef # 0
        THEN /\ inflight' = inflight \cup {h}
             /\ UNCHANGED <<playVars, responses, mediaState>>
        ELSE Continue(h, 1, sources, activeSourcesRef, nextStartTimeRef, <<>>)
  /\ UNCHANGED <<variant, viewVars, captureVars, lifeVars, status, refVars, resVars, sess>>

\* decodeAudioData resolves: the segment is scheduled, onmessage goes on
DecodeResolve(h) ==
  /\ pendingEffect = "none"
  /\ h.pc = "decode" /\ h.audio > 0
  /\ LET currentTime == CtxTime(h.ctx)
         startTime == StartTime(currentTime, nextStartTimeRef)
         source == [m |-> h.m, ctx |-> h.ctx, at |-> currentTime,
                    start |-> startTime, dur |-> h.audio, stop |-> -1,
                    ended |-> FALSE]
     IN Continue(h, 1, Append(sources, source),
                 activeSourcesRef \cup {Len(sources) + 1},
                 NextStart(startTime, h.audio), <<>>)
  /\ UNCHANGED <<variant, viewVars, captureVars, lifeVars, status, refVars, resVars, sess, nMsgs, toolCalls>>

\* a decode failure surfaced as a session error
DecodeRejectSurfaced(h) ==
  /\ pendingEffect = "none"
  /\ h.pc = "decode" /\ h.audio = -1
  /\ inflight' = inflight \ {h}
  /\ status' = "error"
  /\ UNCHANGED <<variant, viewVars, captureVars, lifeVars, refVars, resVars, sess, playVars,
                 nMsgs, toolVars>>

\* a decode failure that resets the playback cursor
DecodeRejectResetsCursor(h) ==
  /\ pendingEffect = "none"
  /\ h.pc = "decode" /\ h.audio = -1
  /\ inflight' = inflight \ {h}
  /\ nextStartTimeRef' = 0
  /\ UNCHANGED <<variant, viewVars, captureVars, lifeVars, status, refVars, resVars, sess,
                 activeSourcesRef, sources, nMsgs, toolVars>>

\* decodeAudioData rejects: the exception ends this onmessage call
DecodeReject(h) ==
  /\ pendingEffect = "none"
  /\ h.pc = "decode" /\ h.audio = -1
  /\ inflight' = inflight \ {h}
  /\ UNCHANGED <<variant, viewVars, captureVars, lifeVars, status, refVars, resVars, sess, playVars, nMsgs,
                 toolVars>>

\* performToolSearch resolves with an answer or with one of its error strings
SearchResolve(h, res) ==
  /\ pendingEffect = "none"
  /\ h.pc = "search"
  /\ Continue(h, h.i + 1, sources, activeSourcesRef, nextStartTimeRef,
              <<[pos |-> h.i, name |-> h.calls[h.i].name, result |-> res]>>)
  /\ UNCHANGED <<variant, viewVars, captureVars, lifeVars, status, refVars, resVars, sess, nMsgs, toolCalls>>

\* an onended that pulls the cursor back to the clock
OnEndedRewindsCursor(s) ==
  /\ pendingEffect = "none"
  /\ s \in activeSourcesRef
  /\ sources[s].stop = -1
  /\ out[sources[s].ctx].state = "running"
  /\ CtxTime(sources[s].ctx) >= sources[s].start + sources[s].dur
  /\ activeSourcesRef' = activeSourcesRef \ {s}
  /\ sources' = [sources EXCEPT ![s].ended = TRUE]
  /\ nextStartTimeRef' = CtxTime(sources[s].ctx)
  /\ UNCHANGED <<variant, viewVars, captureVars, lifeVars, status, refVars, resVars, sess,
                 inflight, nMsgs, toolVars>>

\* source.onended: the segment played to its end
OnEnded(s) ==
  /\ pendingEffect = "none"
  /\ s \in activeSourcesRef
  /\ sources[s].stop = -1
  /\ out[sources[s].ctx].state = "running"
  /\ CtxTime(sources[s].ctx) >= sources[s].start + sources[s].dur
  /\ activeSourcesRef' = activeSourcesRef \ {s}
  /\ sources' = [sources EXCEPT ![s].ended = TRUE]
  /\ UNCHANGED <<variant, viewVars, captureVars, lifeVars, status, refVars, resVars, sess, nextStartTimeRef,
                 inflight, nMsgs, toolVars>>

\* ---- time ----------------------------------------------------------------
\* every running output context advances by d
Tick(d) ==
  /\ pendingEffect = "none"
  /\ \E c \in Sessions : out[c].state = "running"
  /\ \A c \in Sessions : out[c].state = "running" => out[c].time + d <= MaxClock
  /\ out' = [c \in Sessions |->
              IF out[c].state = "running" THEN [out[c] EXCEPT !.time = @ + d] ELSE out[c]]
  /\ UNCHANGED <<variant, viewVars, captureVars, lifeVars, status, refVars, streamLive, inputOpen, worklets,
                 timersLive, sess, playVars, inflight, nMsgs, toolVars>>

\* ---- capture: microphone blocks and camera frames ----------------------------
\* a block the worklet posts: len samples, every one of magnitude
\* level / SampleScale (0 is silence, SampleScale is full scale)
SampleScale == 10
SampleLevels == {0, 5, 10}
BlockLens == {1, 50, 128, 149}
Blocks == { [len |-> n, level |-> a] : n \in BlockLens, a \in SampleLevels }

\* the sampling stride: Math.floor(length / 50) || 1 in the base revision, 50
\* in the tools revision
Stride(len) ==
  IF variant = "base"
  THEN (IF len \div 50 = 0 THEN 1 ELSE len \div 50)
  ELSE 50

\* for (i = from; i < length; i += step) sum += inputData[i] * inputData[i],
\* in units of 1 / SampleScale^2
RECURSIVE SumSquares(_, _, _)
SumSquares(block, from, step) ==
  IF from >= block.len THEN 0
  ELSE block.level * block.level + SumSquares(block, from + step, step)

\* Math.sqrt(sum / (inputData.length / step)), kept as its square: the fraction
\* sum / (length / step) = (sum * step) / length
Volume(block) ==
  LET step == Stride(block.len)
  IN [num |-> SumSquares(block, 0, step) * step,
      den |-> block.len * SampleScale * SampleScale]

\* the worklet of session k is wired to a live input context and posts blocks
Capturing(k) ==
  /\ worklets[k].state = "connected"
  /\ worklets[k].ctx \in inputOpen

\* worklet.port.onmessage: setVolume, createPcmBlob, sessionPromise.then(send)
OnBlock(k, block) ==
  /\ pendingEffect = "none"
  /\ Capturing(k)
  /\ nBlocks < MaxBlocks
  /\ volume' = Volume(block)
  /\ nBlocks' = nBlocks + 1
  /\ pending' = [pending EXCEPT ![k].audio = @ + 1]
  /\ UNCHANGED <<variant, viewVars, lifeVars, status, refVars, resVars, sess, playVars,
                 inflight, nMsgs, toolVars, nTicks, sent, failed, started>>

\* a tick that sends a frame whether or not one is available
FrameChunksAlways(ready, ctx2d) == 1

\* image chunks one tick hands off: none when the video is missing or not ready
\* (readyState < 2) or the canvas gives no 2d context
FrameChunks(ready, ctx2d) == IF ready /\ ctx2d THEN 1 ELSE 0

\* the setInterval callback of the frame timer session t started
FrameTick(t, ready, ctx2d) ==
  /\ pendingEffect = "none"
  /\ t \in timersLive
  /\ nTicks.avail + nTicks.skipped < MaxTicks
  /\ nTicks' = IF ready THEN [nTicks EXCEPT !.avail = @ + 1]
               ELSE [nTicks EXCEPT !.skipped = @ + 1]
  /\ pending' = [pending EXCEPT ![t].image = @ + FrameChunks(ready, ctx2d)]
  /\ UNCHANGED <<variant, viewVars, lifeVars, status, refVars, resVars, sess, playVars,
                 inflight, nMsgs, toolVars, volume, nBlocks, sent, failed, started>>

\* a failed send that tears the capture node down
SendSettleStopsCapture(k, kind, ok) ==
  /\ pendingEffect = "none"
  /\ pending[k][kind] > 0
  /\ pending' = [pending EXCEPT ![k][kind] = @ - 1]
  /\ IF ok /\ sess[k].tr = "open"
     THEN /\ sent' = [sent EXCEPT ![k][kind] = @ + 1]
          /\ UNCHANGED <<failed, worklets>>
     ELSE /\ failed' = failed + 1
          /\ worklets' = [worklets EXCEPT ![k].state = "disconnected"]
          /\ UNCHANGED sent
  /\ UNCHANGED <<variant, viewVars, lifeVars, status, refVars, streamLive, inputOpen, out,
                 timersLive, sess, playVars, inflight, nMsgs, toolVars, volume,
                 nBlocks, nTicks, started>>

\* the callback of sessionPromise.then runs: session.sendRealtimeInput puts the
\* chunk on an open transport, or throws inside the promise chain
SendSettle(k, kind, ok) ==
  /\ pendingEffect = "none"
  /\ pending[k][kind] > 0
  /\ pending' = [pending EXCEPT ![k][kind] = @ - 1]
  /\ IF ok /\ sess[k].tr = "open"
     THEN sent' = [sent EXCEPT ![k][kind] = @ + 1] /\ UNCHANGED failed
     ELSE failed' = failed + 1 /\ UNCHANGED sent
  /\ UNCHANGED <<variant, viewVars, lifeVars, status, refVars, resVars, sess, playVars,
                 inflight, nMsgs, toolVars, volume, nBlocks, nTicks, started>>

\* ---- specifications -------------------------------------------------------
\* the lifecycle effect and connectLive up to the open transport
Setup(maxSessions) ==
  \/ \E n \in {"connect", "disconnect"} : EffectCleanup(n, maxSessions)
  \/ \E v \in BOOLEAN : EffectConnect(v, maxSessions)
  \/ EffectDisconnect
  \/ \E k \in Sessions : GumResolve(k)
  \/ \E k \in Sessions : AddModuleResolve(k)
  \/ \E k \in Sessions : OnOpen(k)

\* lifecycle: setup and teardown of up to MaxSessions sessions, with failures
Next ==
  \/ Setup(MaxSessions)
  \/ \E k \in Sessions : SetupReject(k)
  \/ \E k \in Sessions : OnError(k)
  \/ \E k \in Sessions : OnClose(k)

Spec == Init /\ [][Next]_vars

\* playback: audio and interruption messages against the lifecycle
NextPlayback ==
  \/ Setup(PlaySessions)
  \/ \E k \in Sessions : \E msg \in AudioMsgs \cup IntrMsgs : OnMessage(k, msg)
  \/ \E h \in inflight : DecodeResolve(h)
  \/ \E h \in inflight : DecodeReject(h)
  \/ \E s \in activeSourcesRef : OnEnded(s)
  \/ \E d \in 1..MaxClock : Tick(d)

SpecPlayback == Init /\ [][NextPlayback]_vars

\* tool calls: toolCall messages against the lifecycle (tools revision)
NextTools ==
  \/ Setup(ToolSessions)
  \/ \E k \in Sessions : OnClose(k)
  \/ \E k \in Sessions : \E msg \in ToolMsgs : OnMessage(k, msg)
  \/ \E h \in inflight : \E res \in {"answer", "error"} : SearchResolve(h, res)

InitTools == Init /\ variant = "tools"

SpecTools == InitTools /\ [][NextTools]_vars

\* capture: microphone blocks, frame ticks and their sends against the lifecycle
NextCapture ==
  \/ Setup(CaptureSessions)
  \/ \E k \in Sessions : OnClose(k)
  \/ \E k \in Sessions : \E block \in Blocks : OnBlock(k, block)
  \/ \E t \in Sessions : \E ready, ctx2d \in BOOLEAN : FrameTick(t, ready, ctx2d)
  \/ \E k \in Sessions : \E kind \in {"audio", "image"} : \E ok \in BOOLEAN :
       SendSettle(k, kind, ok)

SpecCapture == Init /\ [][NextCapture]_vars

\* failures inside onmessage: payloads that do not decode and tool calls that
\* fail, next to messages that succeed (tools revision)
NextFailures ==
  \/ Setup(ToolSessions)
  \/ \E k \in Sessions : \E msg \in AudioMsgs \cup ToolMsgs : OnMessage(k, msg)
  \/ \E h \in inflight : DecodeResolve(h)
  \/ \E h \in inflight : DecodeReject(h)
  \/ \E h \in inflight : \E res \in {"answer", "error"} : SearchResolve(h, res)

SpecFailures == InitTools /\ [][NextFailures]_vars

\* ---- the reader view ----------------------------------------------------
\* ReaderView exists in two revisions, both in src/unnamed/part_000:
\*   "capture"  : handleCapture / analyzeImage   (lines 187-389)
\*   "analysis" : handleAnalysis / performAnalysis (lines 390-493)
\* A handler or an effect sees the state its render closed over (`rendered`),
\* not the state as it is now; ReaderCommit is the next render and its effects.
ReaderRevs == {"capture", "analysis"}
CommandKinds == {"read", "stop", "other"}
Images == {1, 2}

RECURSIVE SumRuns(_)
SumRuns(c) == IF c < 0 THEN 0 ELSE runs[c] + SumRuns(c - 1)
TotalRuns == SumRuns(MaxCommands)

\* recognition.onresult in the parent: a context command is handed over only
\* in reader mode; the later parent also hands over "read this" / "start
\* reader" from any mode and switches to the reader with it
SetLastVoiceCommand(kind) ==
  /\ lastVoiceCommand.id < MaxCommands
  /\ readerActive \/ (readerRev = "analysis" /\ kind = "read")
  /\ readerActive' = TRUE
  /\ lastVoiceCommand' = [id |-> lastVoiceCommand.id + 1, kind |-> kind,
                          timestamp |-> dateNow]
  /\ UNCHANGED <<insightVars, guardianVars, dateNow, readerRev, apiKey,
                 isProcessing, currentImage, analysis, rendered, analyses, runs>>

\* the parent's setMode
SetReaderMode(b) ==
  /\ readerActive # b
  /\ readerActive' = b
  /\ UNCHANGED <<insightVars, guardianVars, dateNow, readerRev, apiKey,
                 lastVoiceCommand, isProcessing, currentImage, analysis,
                 rendered, analyses, runs>>

\* the call of analyzeImage / performAnalysis and the await on it
StartRun(by) ==
  /\ TotalRuns < MaxRuns
  /\ analyses' = analyses \cup {[n |-> TotalRuns + 1, by |-> by]}
  /\ runs' = [runs EXCEPT ![by] = @ + 1]

\* handleAnalysis as the render with closure c built it
HandleAnalysis(c, by, video, ctx2d) ==
  IF c.isProcessing \/ ~video
  THEN UNCHANGED <<isProcessing, currentImage, analyses, runs>>
  ELSE /\ UNCHANGED currentImage
       /\ IF ctx2d
          THEN isProcessing' = TRUE /\ StartRun(by)
          ELSE isProcessing' = FALSE /\ UNCHANGED <<analyses, runs>>

\* handleCapture(customPrompt) as the render with closure c built it
HandleCapture(c, customPrompt, by, video, ctx2d, img) ==
  IF ~video \/ c.isProcessing
  THEN UNCHANGED <<isProcessing, currentImage, analyses, runs>>
  ELSE LET capture == ~customPrompt \/ c.currentImage = 0
           imageToAnalyze == IF capture /\ ctx2d THEN img ELSE c.currentImage
       IN /\ currentImage' = IF capture /\ ctx2d THEN img ELSE currentImage
          /\ IF imageToAnalyze # 0
             THEN isProcessing' = TRUE /\ StartRun(by)
             ELSE isProcessing' = FALSE /\ UNCHANGED <<analyses, runs>>

\* Date.now() - timestamp > 5000 does not hold
Recent(timestamp) == ~(dateNow - timestamp > 5000)

\* a render of ReaderView is committed and its effects run
ReaderCommit(video, ctx2d, img) ==
  /\ Closure # rendered
  /\ rendered' = Closure
  /\ LET c == Closure
         handlerChanged ==
           \/ c.isProcessing # rendered.isProcessing
           \/ readerRev = "capture" /\ c.currentImage # rendered.currentImage
         depsChanged == \/ c.isActive # rendered.isActive
                        \/ c.cmd # rendered.cmd
                        \/ handlerChanged
         acts == /\ depsChanged
                 /\ c.isActive
                 /\ c.cmd # 0
                 /\ Recent(lastVoiceCommand.timestamp)
         kind == lastVoiceCommand.kind
     IN IF readerRev = "analysis"
        THEN /\ IF acts /\ kind = "read"
                THEN HandleAnalysis(c, c.cmd, video, ctx2d)
                ELSE UNCHANGED <<isProcessing, currentImage, analyses, runs>>
             /\ UNCHANGED analysis
        ELSE IF acts /\ kind = "read"
        THEN HandleCapture(c, FALSE, c.cmd, video, ctx2d, img) /\ UNCHANGED analysis
        ELSE IF acts /\ kind = "other" /\ c.currentImage # 0
        THEN HandleCapture(c, TRUE, c.cmd, video, ctx2d, img) /\ UNCHANGED analysis
        ELSE IF c.isActive # rendered.isActive /\ ~c.isActive
        THEN /\ analysis' = FALSE
             /\ currentImage' = 0
             /\ UNCHANGED <<isProcessing, analyses, runs>>
        ELSE UNCHANGED <<isProcessing, currentImage, analysis, analyses, runs>>
  /\ UNCHANGED <<insightVars, guardianVars, dateNow, readerRev, apiKey,
                 readerActive, lastVoiceCommand>>

\* the capture button of the last committed render is clicked
ReaderClick(video, ctx2d, img) ==
  /\ rendered.isActive
  /\ ~rendered.analysis
  /\ readerRev = "capture" => ~rendered.isProcessing
  /\ IF readerRev = "analysis"
     THEN HandleAnalysis(rendered, 0, video, ctx2d)
     ELSE HandleCapture(rendered, FALSE, 0, video, ctx2d, img)
  /\ UNCHANGED <<insightVars, guardianVars, dateNow, readerRev, apiKey,
                 readerActive, lastVoiceCommand, analysis, rendered>>

\* the close button of the result panel is clicked
CloseAnalysis ==
  /\ rendered.isActive
  /\ rendered.analysis
  /\ readerRev = "analysis" => ~rendered.isProcessing
  /\ analysis' = FALSE
  /\ UNCHANGED <<insightVars, guardianVars, dateNow, readerRev, apiKey,
                 readerActive, lastVoiceCommand, isProcessing, currentImage,
                 rendered, analyses, runs>>

\* the analysis call settles: without an API key it throws before its try
\* block and the handler ends at the await; otherwise it returns a result
\* (its own catch turns every later failure into a result)
AnalysisSettle(r) ==
  /\ r \in analyses
  /\ analyses' = analyses \ {r}
  /\ IF apiKey
     THEN analysis' = TRUE /\ isProcessing' = FALSE
     ELSE UNCHANGED <<analysis, isProcessing>>
  /\ UNCHANGED <<insightVars, guardianVars, dateNow, readerRev, apiKey,
                 readerActive, lastVoiceCommand, currentImage, rendered, runs>>

ReaderTick(d) ==
  /\ dateNow + d <= DateNowStart + MaxReaderMs
  /\ dateNow' = dateNow + d
  /\ UNCHANGED <<insightVars, guardianVars, readerVars>>

\* the session component stays at rest, in one revision
InitReaderView ==
  /\ InitInsight
  /\ variant = "tools"
  /\ pendingEffect = "disconnect"
  /\ dateNow = DateNowStart
  /\ InitReader(ReaderRevs, BOOLEAN)
  /\ InitGuardian

NextReader ==
  \/ \E kind \in CommandKinds : SetLastVoiceCommand(kind)
  \/ \E b \in BOOLEAN : SetReaderMode(b)
  \/ \E video, ctx2d \in BOOLEAN, img \in Images : ReaderCommit(video, ctx2d, img)
  \/ \E video, ctx2d \in BOOLEAN, img \in Images : ReaderClick(video, ctx2d, img)
  \/ CloseAnalysis
  \/ \E r \in analyses : AnalysisSettle(r)
  \/ ReaderTick(2500)

SpecReader == InitReaderView /\ [][NextReader]_vars

\* React commits every pending render, and every analysis call settles
SpecReaderFair ==
  /\ SpecReader
  /\ WF_vars(\E video, ctx2d \in BOOLEAN, img \in Images : ReaderCommit(video, ctx2d, img))
  /\ WF_vars(\E r \in analyses : AnalysisSettle(r))

\* ---- the guardian overlay -----------------------------------------------
\* A frame is 64 x 48 pixels; the model keeps the red channel only and lets
\* it be constant on four regions of the frame, whose sizes add up to 3072;
\* the largest region is a background that stays dark.
RegionSizes == <<100, 1, 400, 2571>>
RedLevels == {0, 50, 101}
Frames == {f \in [1..Len(RegionSizes) -> RedLevels] : f[Len(RegionSizes)] = 0}

Abs(x) == IF x < 0 THEN -x ELSE x

\* the pixel difference loop, from region i on
RECURSIVE SignificantChange(_, _, _)
SignificantChange(data, lastData, i) ==
  IF i > Len(RegionSizes) THEN 0
  ELSE (IF Abs(data[i] - lastData[i]) > 50 THEN RegionSizes[i] ELSE 0)
       + SignificantChange(data, lastData, i + 1)

IsHighSeverity(significantChange) == significantChange > 500

DetectedHazardsFrom100(significantChange) ==
  IF significantChange >= 100
  THEN <<[severity |-> IF IsHighSeverity(significantChange) THEN "high" ELSE "low"]>>
  ELSE <<>>

DetectedHazards(significantChange) ==
  IF significantChange > 100
  THEN <<[severity |-> IF IsHighSeverity(significantChange) THEN "high" ELSE "low"]>>
  ELSE <<>>

DebouncedNever(now, last) == FALSE

\* the early return of triggerAlert
Debounced(now, last) == now - last < 250

TriggerAlert ==
  LET now == dateNow
  IN IF Debounced(now, lastAlertTimeRef)
     THEN /\ alertLog' = Append(alertLog, [at |-> now, fired |-> FALSE])
          /\ UNCHANGED lastAlertTimeRef
     ELSE /\ alertLog' = Append(alertLog, [at |-> now, fired |-> TRUE])
          /\ lastAlertTimeRef' = now

\* one run of processFrame while the overlay is active
ProcessFrame(ready, currentFrame) ==
  /\ guardianActive
  /\ IF ~ready
     THEN UNCHANGED <<lastFrameRef, hazards, lastAlertTimeRef, alertLog, nFrames>>
     ELSE /\ nFrames < MaxFrames
          /\ nFrames' = nFrames + 1
          /\ lastFrameRef' = currentFrame
          /\ IF lastFrameRef # NoFrame
             THEN LET significantChange ==
                        SignificantChange(currentFrame, lastFrameRef, 1)
                  IN /\ hazards' = DetectedHazards(significantChange)
                     /\ IF significantChange > 100 /\ IsHighSeverity(significantChange)
                        THEN TriggerAlert
                        ELSE UNCHANGED <<lastAlertTimeRef, alertLog>>
             ELSE UNCHANGED <<hazards, lastAlertTimeRef, alertLog>>
  /\ UNCHANGED <<insightVars, readerVars, dateNow, guardianActive>>

\* the parent switches the overlay on or off
SetGuardianActive(b) ==
  /\ guardianActive # b
  /\ guardianActive' = b
  /\ UNCHANGED <<insightVars, readerVars, dateNow, lastFrameRef, hazards,
                 lastAlertTimeRef, alertLog, nFrames>>

GuardianTick(d) ==
  /\ dateNow + d <= DateNowStart + MaxGuardianMs
  /\ dateNow' = dateNow + d
  /\ UNCHANGED <<insightVars, readerVars, guardianVars>>

NextGuardian ==
  \/ \E b \in BOOLEAN : SetGuardianActive(b)
  \/ \E ready \in BOOLEAN, f \in Frames : ProcessFrame(ready, f)
  \/ \E d \in {100, 150} : GuardianTick(d)

InitGuardianView == InitTools /\ pendingEffect = "disconnect"

SpecGuardian == InitGuardianView /\ [][NextGuardian]_vars

\* ---- playback properties --------------------------------------------------
\* the part of the output clock segment s occupies: a stop cuts it short
EffEnd(s) ==
  IF s.stop = -1 THEN s.start + s.dur
  ELSE Min(s.start + s.dur, Max(s.start, s.stop))

Overlap(s, t) ==
  /\ s.start < EffEnd(s) /\ t.start < EffEnd(t)
  /\ s.start < EffEnd(t) /\ t.start < EffEnd(s)

\* C1: no two segments scheduled on the same output clock overlap, and no
\* segment starts before the value the clock had when it was scheduled
C1_NoOverlapNotBeforeClock ==
  /\ \A i, j \in DOMAIN sources :
       i < j /\ sources[i].ctx = sources[j].ctx => ~Overlap(sources[i], sources[j])
  /\ \A i \in DOMAIN sources : sources[i].start >= sources[i].at

\* a second segment was scheduled while the first was still to finish
C1_Witness ==
  /\ Len(sources) >= 2
  /\ sources[1].ctx = sources[2].ctx
  /\ sources[1].stop = -1 /\ sources[2].stop = -1
  /\ sources[2].at < sources[1].start + sources[1].dur
  /\ sources[2].at > sources[1].at

\* C2: a segment is scheduled at max(currentTime, nextStartTime) and the cursor
\* then is that start plus the segment's duration; A (1.0 s) at clock 0 starts
\* at 0 with cursor 1.0, then B (0.5 s) at clock 0.2 starts at 1.0 with cursor 1.5
C2_EnqueueAdvancesCursor ==
  [][\A s \in {sources'[i] : i \in DOMAIN sources' \ DOMAIN sources} :
       /\ s.start = Max(CtxTime(s.ctx), nextStartTimeRef)
       /\ nextStartTimeRef' = s.start + s.dur
       /\ (sources = <<>> /\ nextStartTimeRef = 0 /\ s.dur = 10 /\ CtxTime(s.ctx) = 0)
            => (s.start = 0 /\ nextStartTimeRef' = 10)
       /\ (Len(sources) = 1 /\ nextStartTimeRef = 10 /\ s.dur = 5 /\ CtxTime(s.ctx) = 2)
            => (s.start = 10 /\ nextStartTimeRef' = 15)]_vars

\* the scenario: A at clock 0, B at clock 0.2
C2_Witness ==
  /\ Len(sources) = 2
  /\ sources[1].at = 0 /\ sources[1].start = 0 /\ sources[1].dur = 10
  /\ sources[2].at = 2 /\ sources[2].start = 10 /\ sources[2].dur = 5
  /\ nextStartTimeRef = 15

\* C3: handling an Interrupted message empties ActiveSources, stops every
\* segment that was in it and sets the cursor to 0
C3_InterruptClears ==
  [][nMsgs'.intr > nMsgs.intr =>
       /\ activeSourcesRef' = {}
       /\ nextStartTimeRef' = 0
       /\ \A s \in activeSourcesRef : sources'[s].stop # -1]_vars

\* an interruption that found two segments active (only an interruption stops
\* a segment in the tools revision)
C3_Witness ==
  /\ variant = "tools"
  /\ nMsgs.intr = 1
  /\ Len(sources) = 2
  /\ sources[1].stop # -1 /\ sources[2].stop # -1
  /\ activeSourcesRef = {} /\ nextStartTimeRef = 0

\* ---- tool-call properties -------------------------------------------------
\* the onmessage call for message m has ended and its transport is still open
Handled(m) ==
  /\ \A h \in inflight : h.m # m
  /\ \A c \in toolCalls : c.m = m => sess[c.sess].tr = "open"

ResponsesTo(c) ==
  { j \in DOMAIN responses :
      responses[j].id = <<c.m, c.pos>> /\ responses[j].name = c.name }

\* C4: once a batch of N calls received while connected has been handled, N
\* responses have been sent, one for each id of the batch
C4_EveryBatchAnswered ==
  \A m \in {c.m : c \in toolCalls} :
    (Handled(m) /\ \A c \in toolCalls : c.m = m => c.connected) =>
      /\ Cardinality({j \in DOMAIN responses : responses[j].id[1] = m})
           = Cardinality({c \in toolCalls : c.m = m})
      /\ \A c \in toolCalls : c.m = m => Cardinality(ResponsesTo(c)) = 1

\* C5: a call with an unknown name, or one whose arguments are missing or
\* malformed, has exactly one response once its message has been handled
C5_FailingCallAnswered ==
  \A c \in toolCalls :
    (c.name = "other" \/ c.args \in {"none", "empty"}) /\ Handled(c.m)
      => Cardinality({j \in DOMAIN responses : responses[j].id = <<c.m, c.pos>>}) = 1

\* ---- lifecycle properties -------------------------------------------------
\* the effect body that calls disconnect() runs
Deactivates == pendingEffect = "disconnect" /\ pendingEffect' = "none"

\* C6: once deactivated, a transport callback or decode completion leaves the
\* status, ActiveSources and the cursor as they are
C6_StaleCallbacksNoOp ==
  [][(/\ ~isActive /\ pendingEffect = "none" /\ pendingEffect' = "none"
      /\ \A k \in Sessions : sess'[k].pc = sess[k].pc)
       => UNCHANGED <<status, activeSourcesRef, nextStartTimeRef>>]_vars

\* C7: never two open transports, never two live microphone streams
C7_OneLiveSession ==
  /\ Cardinality({k \in Sessions : sess[k].tr = "open"}) <= 1
  /\ Cardinality(streamLive) <= 1

\* C8: after deactivate the status is idle, no timer is live, no capture node
\* is connected, no microphone track is live and no transport is open
C8_DeactivateReleasesAll ==
  [][Deactivates =>
       /\ status' = "idle"
       /\ timersLive' = {}
       /\ \A k \in Sessions : worklets'[k].state # "connected"
       /\ streamLive' = {}
       /\ \A k \in Sessions : sess'[k].tr \notin {"connecting", "open"}]_vars

\* C9: after deactivate ActiveSources is empty and the cursor is 0
C9_DeactivateClearsPlayback ==
  [][Deactivates => activeSourcesRef' = {} /\ nextStartTimeRef' = 0]_vars

SetupFails(k) ==
  \/ sess[k].pc = "gum" /\ sess'[k].pc = "failed"
  \/ sess[k].tr = "connecting" /\ sess'[k].tr = "errored"

\* C11: when microphone acquisition or the handshake fails the status is error
\* and the stream, the input context and the output context of that attempt
\* are released
C11_FailedSetupReleases ==
  [][\A k \in Sessions : (isActive /\ SetupFails(k)) =>
        /\ status' = "error"
        /\ k \notin streamLive'
        /\ k \notin inputOpen'
        /\ out'[k].state # "running"]_vars

\* C12: status error stays error until the lifecycle effect runs again
C12_ErrorIsTerminal ==
  [][(status = "error" /\ pendingEffect = "none" /\ pendingEffect' = "none")
       => status' = "error"]_vars

\* C13: the status becomes connecting only by activate (from idle or error)
\* and becomes connected only from connecting
C13_StatusEdges ==
  [][/\ (status' = "connecting" /\ status # "connecting")
          => (pendingEffect = "connect" /\ status \in {"idle", "error"})
     /\ (status' = "connected" /\ status # "connected")
          => status = "connecting"]_vars

\* C14: audio segments are scheduled in the order their messages arrived:
\* the segment of an earlier message is scheduled first and starts no later
C14_ScheduledInArrivalOrder ==
  \A i, j \in DOMAIN sources :
    sources[i].m < sources[j].m
      => (i < j /\ sources[i].start <= sources[j].start)

\* ---- capture properties ---------------------------------------------------
\* C15: the published volume is in [0, 1] (its square num/den is)
C15_VolumeInUnitRange ==
  /\ volume.den > 0
  /\ 0 <= volume.num
  /\ volume.num <= volume.den

\* ---- failure properties ---------------------------------------------------
\* a step in which a payload fails to decode, a tool handler throws (its
\* message is over and a call of it has no response) or a search fails
FailureStep ==
  \/ \E h \in inflight : h.pc = "decode" /\ h.audio = -1 /\ h \notin inflight'
  \/ \E c \in toolCalls' :
       /\ \/ c \notin toolCalls
          \/ \E h \in inflight : h.m = c.m
       /\ \A h \in inflight' : h.m # c.m
       /\ \A j \in DOMAIN responses' : responses'[j].id # <<c.m, c.pos>>
  \/ \E j \in DOMAIN responses' \ DOMAIN responses : responses'[j].result = "error"

\* C16: a decode failure or a tool-handler failure leaves the status and the
\* transports as they were
C16_FailuresKeepStatus ==
  [][FailureStep => UNCHANGED <<status, sess>>]_vars

\* connected after a payload that did not decode (message 1) and a tool call
\* that threw (message 2), with the audio of message 3 scheduled
C16_Witness ==
  /\ status = "connected" /\ isActive
  /\ inflight = {}
  /\ nMsgs.audio = 2 /\ nMsgs.tool = 1
  /\ Len(sources) = 1 /\ sources[1].m = 3
  /\ \E c \in toolCalls : c.m = 2 /\ c.args = "none" /\ ResponsesTo(c) = {}

\* C17: a search for a call received while connected that resolves after
\* deactivate sends no response and leaves the media state alone
C17_LateToolResultDiscarded ==
  [][(/\ ~isActive /\ pendingEffect = "none"
      /\ \E h \in inflight :
           /\ h.pc = "search" /\ h \notin inflight'
           /\ \A c \in toolCalls : c.m = h.m => c.connected)
       => UNCHANGED <<responses, mediaState>>]_vars

\* C18: once a transport has closed or failed, the status becomes connecting
\* and a connection attempt starts only when the lifecycle effect calls
\* connectLive
C18_NoAutoReconnect ==
  [][(/\ \E k \in Sessions : sess'[k].tr \in {"closed", "errored"}
      /\ \/ status' = "connecting" /\ status # "connecting"
         \/ \E k \in Sessions : sess[k].pc = "unused" /\ sess'[k].pc # "unused")
       => pendingEffect = "connect"]_vars

\* the transport of the only attempt closed; still active, nothing reconnected
C18_Witness ==
  /\ isActive /\ pendingEffect = "none"
  /\ sess[1].tr = "closed" /\ sess[2].pc = "unused"
  /\ status = "idle"

\* a step of the lifecycle effect that runs disconnect()
DisconnectStep ==
  \/ pendingEffect = "none" /\ pendingEffect' # "none"
  \/ pendingEffect = "disconnect" /\ pendingEffect' = "none"

\* C19: capture stops only in disconnect(): a failed send does not stop it, and
\* a block is handed off whatever sends are still pending
C19_CaptureUntilDeactivate ==
  /\ [][\A k \in Sessions : (Capturing(k) /\ ~Capturing(k)') => DisconnectStep]_vars
  /\ [](\A k \in Sessions :
          (Capturing(k) /\ pendingEffect = "none" /\ nBlocks < MaxBlocks)
            => ENABLED (\E block \in Blocks : OnBlock(k, block)))

\* a block was handed off after a send failed and while a send was pending
C19_Witness ==
  /\ failed >= 1
  /\ nBlocks = MaxBlocks
  /\ pending[1].audio >= 1
  /\ Capturing(1)

\* image chunks handed off so far and not failed
ImageChunks(k) == pending[k].image + sent[k].image

RECURSIVE TotalImageChunks(_)
TotalImageChunks(n) == IF n = 0 THEN 0 ELSE ImageChunks(n) + TotalImageChunks(n - 1)

\* C20: a tick without a frame hands off nothing, a tick hands off at most one
\* image chunk, and the chunks never outnumber the ticks that had a frame
C20_NoFrameBacklog ==
  /\ [](TotalImageChunks(MaxSessions) <= nTicks.avail)
  /\ [][nTicks'.skipped > nTicks.skipped => UNCHANGED <<pending, sent>>]_vars
  /\ [][nTicks' # nTicks =>
          /\ TotalImageChunks(MaxSessions)' <= TotalImageChunks(MaxSessions) + 1
          /\ sent' = sent]_vars

\* one tick was skipped, one tick had a frame, and its chunk went out
C20_Witness ==
  /\ nTicks.skipped = 1 /\ nTicks.avail = 1
  /\ sent[1].image = 1
  /\ pending[1].image = 0

\* ---- start order, batches and playback bookkeeping ------------------------
\* the transport of session k has reported open
Opened(k) == sess[k].tr \in {"open", "errored", "closed"}

\* C21: capture and frame sampling of a session start only at its open event,
\* capture first, and no chunk is handed off or sent before that event
C21_StartOnlyWhenOpen ==
  \A k \in Sessions :
    /\ (started[k] # <<>> \/ worklets[k].state # "none" \/ k \in timersLive)
         => Opened(k)
    /\ pending[k].audio + pending[k].image + sent[k].audio + sent[k].image > 0
         => Opened(k)
    /\ \A i, j \in DOMAIN started[k] :
         (started[k][i] = "frames" /\ started[k][j] = "capture") => j < i
    /\ worklets[k].state # "none" => \E i \in DOMAIN started[k] : started[k][i] = "capture"
    /\ k \in timersLive => \E i \in DOMAIN started[k] : started[k][i] = "frames"

\* capture then frames were started at the open event and both kinds went out
C21_Witness ==
  /\ started[1] = <<"capture", "frames">>
  /\ sent[1].audio >= 1 /\ sent[1].image >= 1

\* the invocation makes the loop throw: fc.args is undefined
Throws(c) == c.name \in {"search_google", "play_video"} /\ c.args = "none"

\* C22: an invocation that does not fail itself has its one response even when
\* another invocation of the same batch fails
C22_BatchCallsIndependent ==
  \A c \in toolCalls :
    (/\ Handled(c.m) /\ c.connected /\ ~Throws(c)
     /\ \E f \in toolCalls : f.m = c.m /\ f.pos # c.pos /\ Throws(f))
      => Cardinality(ResponsesTo(c)) = 1

\* segment i is scheduled, has not ended, was not stopped, and its output
\* context has not been closed
Unfinished(i) ==
  /\ ~sources[i].ended
  /\ sources[i].stop = -1
  /\ out[sources[i].ctx].state = "running"

\* C23: ActiveSources is exactly the set of scheduled segments that have
\* neither ended nor been stopped by an interruption or a deactivation
C23_ActiveSourcesExact ==
  activeSourcesRef = {i \in DOMAIN sources : Unfinished(i)}

\* C24: a natural end removes that segment only; the cursor and the other
\* segments stay as they are
C24_NaturalEndRemovesOne ==
  [][\A s \in DOMAIN sources : (~sources[s].ended /\ sources'[s].ended) =>
        /\ activeSourcesRef' = activeSourcesRef \ {s}
        /\ nextStartTimeRef' = nextStartTimeRef
        /\ \A t \in DOMAIN sources \ {s} : sources'[t] = sources[t]]_vars

\* the first of two segments ended while the second is still in the set
C24_Witness ==
  /\ Len(sources) = 2
  /\ sources[1].ended /\ ~sources[2].ended
  /\ activeSourcesRef = {2}
  /\ nextStartTimeRef = sources[2].start + sources[2].dur

\* C25: an interruption that finds ActiveSources empty raises nothing, leaves
\* it empty, schedules and stops nothing, and the cursor is 0 afterwards
C25_InterruptOnEmpty ==
  [][(nMsgs'.intr > nMsgs.intr /\ activeSourcesRef = {}) =>
       /\ activeSourcesRef' = {}
       /\ nextStartTimeRef' = 0
       /\ sources' = sources
       /\ inflight' = inflight
       /\ UNCHANGED <<status, sess>>]_vars

\* an interruption handled after the only segment had ended
C25_Witness ==
  /\ nMsgs.intr = 1
  /\ Len(sources) = 1
  /\ sources[1].ended /\ sources[1].stop = -1
  /\ sources[1].m < nMsgs.lastIntr
  /\ activeSourcesRef = {} /\ nextStartTimeRef = 0

\* segment i has played to its end on its output clock
Finished(i) == CtxTime(sources[i].ctx) >= sources[i].start + sources[i].dur

\* C26: an interruption that finds a member already played to its end (its
\* stop can fail) still stops every other member, empties the set and resets
\* the cursor
C26_InterruptSurvivesStopFailure ==
  [][(nMsgs'.intr > nMsgs.intr /\ \E f \in activeSourcesRef : Finished(f)) =>
       /\ \A s \in activeSourcesRef : ~Finished(s) => sources'[s].stop # -1
       /\ activeSourcesRef' = {}
       /\ nextStartTimeRef' = 0]_vars

\* an interruption found segment 1 played to its end and cut segment 2 short
C26_Witness ==
  /\ nMsgs.intr = 1
  /\ Len(sources) = 2
  /\ ~sources[1].ended
  /\ sources[1].stop >= sources[1].start + sources[1].dur
  /\ sources[2].stop # -1
  /\ sources[2].stop < sources[2].start + sources[2].dur
  /\ activeSourcesRef = {}

\* C27: a payload that fails to decode changes neither the cursor nor
\* ActiveSources, and no segment is ever scheduled for it
C27_DecodeFailureDropsSegment ==
  /\ [][\A h \in inflight :
          (h.pc = "decode" /\ h.audio = -1 /\ h \notin inflight')
            => UNCHANGED playVars]_vars
  /\ [](\A h \in inflight : h.audio = -1 =>
          \A i \in DOMAIN sources : sources[i].m # h.m)

\* the second payload failed to decode while the first segment was scheduled
C27_Witness ==
  /\ isActive /\ status = "connected"
  /\ nMsgs.audio = 2 /\ nMsgs.intr = 0
  /\ inflight = {}
  /\ Len(sources) = 1 /\ sources[1].m = 1
  /\ activeSourcesRef = {1}
  /\ nextStartTimeRef = sources[1].start + sources[1].dur

\* C28: a segment whose message arrived before an interruption is stopped or
\* over once that interruption has been handled
C28_BargeInNotUndone ==
  \A i \in DOMAIN sources :
    sources[i].m < nMsgs.lastIntr => (sources[i].stop # -1 \/ sources[i].ended)

\* C29: while inactive no microphone stream is live and the status is
\* neither connecting nor connected
C29_InactiveHoldsNothing ==
  (~isActive /\ pendingEffect = "none") =>
    /\ streamLive = {}
    /\ status \notin {"connecting", "connected"}

\* C30: at most one frame timer is live, and none while the status is idle
C30_OneTimerNoneWhenIdle ==
  /\ Cardinality(timersLive) <= 1
  /\ (status = "idle" /\ pendingEffect = "none") => timersLive = {}

\* C31: one recognized voice command (one id, one timestamp) starts at most
\* one capture-and-analysis run of the reader view, however often the view
\* renders again while or after the run executes.
C31_OneRunPerCommand == \A c \in 1..MaxCommands : runs[c] <= 1

\* C32: at most one analysis request of the reader view is in flight at a
\* time, and every started analysis is followed by the processing flag being
\* false again, also when the analysis call fails (the API key is missing).
C32_OneInFlightFlagResets ==
  /\ [](Cardinality(analyses) <= 1)
  /\ (analyses # {}) ~> ~isProcessing

\* the triggerAlert calls that fired, and those that returned early
Fired == {i \in 1..Len(alertLog) : alertLog[i].fired}
Suppressed == {i \in 1..Len(alertLog) : ~alertLog[i].fired}

\* C33: the motion-hazard alert is debounced: any two alerts that fire are at
\* least 250 ms apart, and a triggerAlert call that is suppressed does not
\* move the last-alert time.
C33_AlertsDebounced ==
  /\ [](\A i, j \in Fired : i < j => alertLog[j].at - alertLog[i].at >= 250)
  /\ [][Len(alertLog') > Len(alertLog) /\ ~alertLog'[Len(alertLog')].fired
          => lastAlertTimeRef' = lastAlertTimeRef]_vars

\* an alert fired, a later call was suppressed, and a call after that fired
C33_Witness ==
  \E i, k \in Fired : \E j \in Suppressed :
    /\ i < j /\ j < k
    /\ lastAlertTimeRef = alertLog[k].at

\* C34: for every processed pair of frames the detector reports a hazard
\* exactly when more than 100 pixels changed (red difference above 50), the
\* hazard is of high severity exactly when more than 500 changed, the alert
\* is triggered exactly for high severity, and with 100 or fewer changed
\* pixels the hazard list is empty.
C34_HazardThresholds ==
  [][nFrames' = nFrames + 1 /\ lastFrameRef # NoFrame
       => LET changed == SignificantChange(lastFrameRef', lastFrameRef, 1)
          IN /\ changed <= 100 => hazards' = <<>>
             /\ changed > 100 => Len(hazards') = 1
             /\ changed > 100 =>
                  (hazards'[1].severity = "high" <=> changed > 500)
             /\ Len(alertLog') = Len(alertLog) + 1 <=> changed > 500
             /\ changed <= 500 => alertLog' = alertLog]_vars

\* a pair of high severity raised the alert and a later pair is of low severity
C34_Witness ==
  /\ nFrames >= 3
  /\ alertLog # <<>>
  /\ hazards = <<[severity |-> "low"]>>
====
